---- MODULE Spec2Model ----
(***************************************************************************)
(* State-machine model of the Express/Mongoose API server:                 *)
(*   - UserService / UserController (registration, login, user cache)      *)
(*   - ItemService / ItemController (item creation and lookup, item cache) *)
(* The persistent store is a MongoDB collection per model; the caches are  *)
(* node-cache instances (per-entry expiry timestamp, lazy expiry on get,   *)
(* periodic sweep).  Asynchronous handlers are split at the awaits whose   *)
(* interleaving can change the outcome.                                    *)
(***************************************************************************)
EXTENDS Integers, Sequences, FiniteSets, TLC

VARIABLES
    users,       \* the users collection, in insertion order
    userCache,   \* UserService.userCache: key -> [v: value, t: expiry time]
    pending,     \* per call: the registerUser invocation suspended at user.save()
    registered,  \* history: lowercased emails whose registerUser call has returned a user
    nodeEnv,     \* process.env.NODE_ENV
    items,       \* the items collection, in insertion order
    itemCache,   \* ItemService.itemCache: key -> [v: value, t: expiry time]
    listing,     \* per call: the getAllItems invocation suspended at Item.find() or after it
    now,         \* wall clock, in seconds
    last,        \* the most recent request together with the response sent for it
    owed,        \* history: how many items were stored when 'all_items' was last invalidated or expired
    promised,    \* history, per call: the value of owed when the getAllItems call started
    due,         \* history: how many stored items the response just sent was started after
    returned,    \* history: the cache call made in this step and whether its get() hit
    isConnected, \* connection.ts isConnected: the mongoose connection is up
    phase,       \* the server process: "starting", "listening", "stopping", "exit0" or "exit1"
    portEnv,     \* process.env.PORT
    configRead,  \* history: what config.port and config.environment returned since the
                 \* environment last changed, and (before) what they had returned until then
    options,     \* what startServer was called with (and cluster.isPrimary), << >> before the call
    app,         \* which factory built the Express app: "none", "createApp" or "appFactory"
    dbCall,      \* per caller: the connectToDatabase call suspended at mongoose.connect
    connects,    \* history: mongoose.connect invocations since the connection was last lost
    listeners,   \* per event: the listeners registered on mongoose.connection
    disconnecting, \* mongoose.disconnect calls that have not settled
    timers,      \* armed 30 s timers of shutdownGracefully
    signals,     \* runs of shutdownGracefully (SIGTERM, SIGINT, uncaught exception)
    log,         \* the messages written through options.logger
    numCPUs,     \* os.cpus().length as the primary reads it, 0 until then
    workers,     \* live worker processes
    exitEvents,  \* cluster 'exit' events not yet handled
    forks,       \* history: calls of cluster.fork()
    otherKeys    \* per cache: the keys it holds besides the entries followed here

vars == <<users, userCache, pending, registered, nodeEnv, items, itemCache, listing, now, last,
          owed, promised, due, returned, isConnected, phase, portEnv, configRead,
          options, app, dbCall, connects, listeners, disconnecting, timers, signals, log,
          numCPUs, workers, exitEvents, forks, otherKeys>>

clusterVars == <<numCPUs, workers, exitEvents, forks>>
procVars == <<options, app, dbCall, connects, listeners, disconnecting, timers, signals, log,
              clusterVars>>

processVars == <<nodeEnv, isConnected, phase, portEnv, procVars>>
envVars == <<processVars, otherKeys>>
userVars == <<users, userCache, pending, registered>>
itemVars == <<items, itemCache, listing>>
listVars == <<owed, promised, due, configRead>>
histVars == <<owed, promised, due, returned, configRead>>

-----------------------------------------------------------------------------
(* Bounds of the model *)

MaxUsers == 2
MaxItems == 2
MaxTicks == 2

(* Program constants *)

stdTTL == 300
itemStdTTL == 600

(* Mutant: the third argument of set() is left out, so stdTTL applies *)
allItemsTTL_Default == itemStdTTL

(* Mutant: the list is kept for as long as an item and a user together *)
allItemsTTL_Long == itemStdTTL + stdTTL

allItemsTTL == 300
maxKeys == 10000
ECACHEFULL == "Cache max keys amount exceeded"
MinLengthPassword == 8
MinPrice == 0

autoIndex == FALSE

-----------------------------------------------------------------------------
(* Strings *)

CharAt(s, i) == SubSeq(s, i, i)

Includes(s, sub) ==
    \E i \in 1..(Len(s) - Len(sub) + 1) : SubSeq(s, i, i + Len(sub) - 1) = sub

LowerChar(c) ==
    CASE c = "A" -> "a" [] c = "B" -> "b" [] c = "C" -> "c" [] c = "D" -> "d"
      [] c = "E" -> "e" [] c = "F" -> "f" [] c = "G" -> "g" [] c = "H" -> "h"
      [] c = "I" -> "i" [] c = "J" -> "j" [] c = "K" -> "k" [] c = "L" -> "l"
      [] c = "M" -> "m" [] c = "N" -> "n" [] c = "O" -> "o" [] c = "P" -> "p"
      [] c = "Q" -> "q" [] c = "R" -> "r" [] c = "S" -> "s" [] c = "T" -> "t"
      [] c = "U" -> "u" [] c = "V" -> "v" [] c = "W" -> "w" [] c = "X" -> "x"
      [] c = "Y" -> "y" [] c = "Z" -> "z" [] OTHER -> c

RECURSIVE toLowerCase(_)
toLowerCase(s) ==
    IF Len(s) = 0 THEN ""
    ELSE LowerChar(CharAt(s, 1)) \o toLowerCase(SubSeq(s, 2, Len(s)))

(* class-validator @IsEmail(): one "@" with a non-empty local part and a     *)
(* domain that holds a "." with characters on both sides.                    *)
IsEmail(s) ==
    \E i \in 2..(Len(s) - 3) :
        /\ CharAt(s, i) = "@"
        /\ \A j \in 1..Len(s) : CharAt(s, j) = "@" => j = i
        /\ \E k \in (i + 2)..(Len(s) - 1) : CharAt(s, k) = "."

(* class-validator @MinLength(8) *)
MinLength(s) == Len(s) >= MinLengthPassword

-----------------------------------------------------------------------------
(* Request bodies.  A body is a JSON object: a field that was not sent is   *)
(* absent from its DOMAIN (JavaScript reads it as undefined).               *)

Emails == {"a@x.io", "A@X.IO", "b@x.io", "nope"}
Passwords == {"Password1!", "Passw0rd2!", "short"}
Salts == {"c2FsdDE"}
Calls == {"c1", "c2"}
ListCalls == {"c1"}

RegisterFields == {"firstName", "lastName", "email", "password"}

Credentials ==
    {<<"a@x.io", "Password1!">>, <<"a@x.io", "Passw0rd2!">>, <<"A@X.IO", "Password1!">>,
     <<"b@x.io", "Password1!">>, <<"nope", "Password1!">>, <<"a@x.io", "short">>}

CompleteRegisterBodies ==
    {[firstName |-> "Ann", lastName |-> "Lee", email |-> c[1], password |-> c[2]] :
        c \in Credentials}

BaseRegisterBody ==
    [firstName |-> "Ann", lastName |-> "Lee", email |-> "a@x.io", password |-> "Password1!"]

Without(b, k) == [f \in DOMAIN b \ {k} |-> b[f]]

RegisterBodies ==
    CompleteRegisterBodies
      \cup {Without(BaseRegisterBody, k) : k \in {"lastName", "email"}}
      \cup {[BaseRegisterBody EXCEPT ![k] = ""] : k \in {"firstName", "password"}}

LoginCredentials ==
    {<<"a@x.io", "Password1!">>, <<"a@x.io", "Passw0rd2!">>, <<"A@X.IO", "Password1!">>,
     <<"b@x.io", "Password1!">>}

LoginBodies ==
    {[email |-> c[1], password |-> c[2]] : c \in LoginCredentials}
      \cup {Without([email |-> "a@x.io", password |-> "Password1!"], "email"),
            [email |-> "a@x.io", password |-> ""]}

(* JavaScript !x for a body field: undefined or the empty string *)
Falsy(b, k) == k \notin DOMAIN b \/ b[k] = ""

-----------------------------------------------------------------------------
(* node-cache (useClones: false; deleteOnExpire defaults to true).          *)
(* An entry is [v |-> value, t |-> expiry time]; get() treats an entry      *)
(* whose t lies in the past as absent and deletes it.                        *)

EmptyCache == << >>

(* Mutant: get() does not look at the expiry time and leaves it to the sweep *)
Expired_OnSweepOnly(cache, key) == FALSE

Expired(cache, key) == cache[key].t # 0 /\ cache[key].t < now

CacheHas(cache, key) == key \in DOMAIN cache /\ ~Expired(cache, key)

CacheDel(cache, key) == [k \in DOMAIN cache \ {key} |-> cache[k]]

CacheAfterGet(cache, key) ==
    IF key \in DOMAIN cache /\ Expired(cache, key) THEN CacheDel(cache, key) ELSE cache

CacheSet(cache, key, val, ttl) ==
    (key :> [v |-> val, t |-> IF ttl = 0 THEN 0 ELSE now + ttl]) @@ cache

(* set() throws ECACHEFULL once stats.keys has reached maxKeys; stats.keys   *)
(* counts every stored key, the expired ones not yet deleted included.      *)
CacheFull(cache, others) == Cardinality(DOMAIN cache) + others >= maxKeys

(* The message of the error that set() throws, or "" *)
cacheSetError(cache, others) == IF CacheFull(cache, others) THEN ECACHEFULL ELSE ""

CacheSweep(cache) ==
    [k \in {x \in DOMAIN cache : ~Expired(cache, x)} |-> cache[k]]

-----------------------------------------------------------------------------
(* User model *)

(* argon2.hash: a PHC string that carries the parameters, the random salt   *)
(* and the digest of (salt, password).                                      *)
Argon2Prefix == "$argon2id$v=19$m=4096,t=3,p=2$"

argon2Hash(plain, salt) ==
    Argon2Prefix \o salt \o "$" \o "H(" \o salt \o "," \o plain \o ")"

(* argon2.verify: "error" for a string that is no PHC hash, else whether    *)
(* the digest recomputed with the salt read from the hash matches.          *)
argon2Verify(hash, candidate) ==
    IF ~(Len(hash) >= Len(Argon2Prefix) /\ SubSeq(hash, 1, Len(Argon2Prefix)) = Argon2Prefix)
    THEN "error"
    ELSE IF \E salt \in Salts : hash = argon2Hash(candidate, salt) THEN "true" ELSE "false"

(* Mutant: the hook takes the password for unmodified and skips the hash *)
preSave_Unmodified(doc, salt) == doc

(* pre('save') hook: a new document's password is modified, so it is hashed *)
preSave(doc, salt) == [doc EXCEPT !.password = argon2Hash(doc.password, salt)]

comparePassword(user, candidatePassword) == argon2Verify(user.password, candidatePassword)

(* new User(userData): schema defaults added, _id assigned on insert *)
NewUser(userData, id) ==
    [_id |-> id, firstName |-> userData.firstName, lastName |-> userData.lastName,
     email |-> userData.email, password |-> userData.password, isVerified |-> FALSE]

(* Mutant: the password is not destructured away *)
userWithoutPassword_Kept(u) == u

(* const { password, ...userWithoutPassword } = userObject *)
userWithoutPassword(u) == [f \in DOMAIN u \ {"password"} |-> u[f]]

(* class-validator validate(user): the constraint messages, in property order *)
ValidateUser(u) ==
    (IF IsEmail(u.email) THEN << >> ELSE <<"email must be an email">>)
      \o (IF MinLength(u.password) THEN << >>
          ELSE <<"password must be longer than or equal to 8 characters">>)

RECURSIVE Join(_, _)
Join(parts, sep) ==
    IF Len(parts) = 0 THEN ""
    ELSE IF Len(parts) = 1 THEN parts[1]
    ELSE parts[1] \o sep \o Join(Tail(parts), sep)

(* User.findOne({ email }): the indexes of the matching documents *)
FindUsers(email) == {i \in 1..Len(users) : users[i].email = email}

(* The unique index on email exists only if mongoose built it (autoIndex) *)
UniqueEmailIndex == autoIndex

UserKey(email) == "user:" \o email

-----------------------------------------------------------------------------
(* Responses: res.status(status).json(res) *)

Failure(op, body, status, message) ==
    [op |-> op, body |-> body, status |-> status,
     res |-> [success |-> FALSE, message |-> message]]

Success(op, body, status, message, data) ==
    [op |-> op, body |-> body, status |-> status,
     res |-> [success |-> TRUE, message |-> message, data |-> data]]

NoRequest == [op |-> "none", body |-> << >>, status |-> 0, res |-> << >>]

NoCall == [op |-> "none"]

(* An environment variable that is not set reads as undefined, which every  *)
(* read in the code treats as it treats the empty string                    *)
Unset == ""

(* What a mongoose operation rejects with while the connection is down      *)
(* (bufferCommands is false, so nothing is queued)                          *)
StoreError == "MongoNotConnectedError: Client must be connected before running operations"

-----------------------------------------------------------------------------
(* UserController.register and UserService.registerUser *)

NodeEnvs == {"development", "production"}

(* Mutant: the required-field test leaves lastName out *)
MissingRegisterField_NoLastName(body) ==
    \E k \in RegisterFields \ {"lastName"} : Falsy(body, k)

MissingRegisterField(body) == \E k \in RegisterFields : Falsy(body, k)

(* catch block of UserController.register: status from the error message *)
registerStatusCode(errorMessage) ==
    IF Includes(errorMessage, "already exists") THEN 409
    ELSE IF Includes(errorMessage, "Validation failed") THEN 400
    ELSE 500

(* Whether registerUser runs class-validator on the new user *)
ValidatesUser == nodeEnv # "production"

(* registerUser up to user.save(): the message of the error thrown, or "" *)
registerUserError(userData) ==
    IF ~isConnected
    THEN StoreError
    ELSE IF FindUsers(userData.email) # {}
    THEN "User with this email already exists"
    ELSE IF ValidatesUser /\ ValidateUser(userData) # << >>
    THEN "Validation failed: " \o Join(ValidateUser(userData), "; ")
    ELSE ""

(* Mutant: the email is not lowercased *)
NormalizeUserData_AsSent(body) == body

(* userData.email = userData.email.toLowerCase() *)
NormalizeUserData(body) == [body EXCEPT !.email = toLowerCase(body.email)]

InFlight == Cardinality({c \in Calls : pending[c] # {}})

register(c, body) ==
    /\ pending[c] = {}
    /\ UNCHANGED <<users, userCache, registered, envVars, itemVars, now>>
    /\ IF MissingRegisterField(body)
       THEN /\ last' = Failure("register", body, 400,
                         "All fields are required: firstName, lastName, email, password")
            /\ UNCHANGED pending
       ELSE LET userData == NormalizeUserData(body)
                err == registerUserError(userData)
                message == "User registration failed: " \o err
            IN IF err # ""
               THEN /\ last' = Failure("register", body, registerStatusCode(message), message)
                    /\ UNCHANGED pending
               ELSE /\ Len(users) + InFlight < MaxUsers
                    /\ pending' = [pending EXCEPT ![c] = {userData}]
                    /\ UNCHANGED last

(* user.save(): false when the insert hits the unique index on email *)
InsertAllowed(doc) == ~(UniqueEmailIndex /\ FindUsers(doc.email) # {})

(* The resumption of registerUser at user.save({ w: 'majority' }) *)
registerSave(c) ==
    /\ pending[c] # {}
    /\ pending' = [pending EXCEPT ![c] = {}]
    /\ UNCHANGED <<envVars, itemVars, now>>
    /\ \E salt \in Salts :
         LET userData == CHOOSE u \in pending[c] : TRUE
             doc == preSave(NewUser(userData, Len(users) + 1), salt)
             message == "User registration failed: E11000 duplicate key error collection: "
                          \o "testing-app.users index: email_1 dup key"
             failed == "User registration failed: " \o StoreError
             full == "User registration failed: " \o ECACHEFULL
         IN IF ~isConnected
            THEN /\ last' = Failure("register", userData, registerStatusCode(failed), failed)
                 /\ UNCHANGED <<users, userCache, registered>>
            ELSE IF InsertAllowed(doc)
            THEN /\ users' = Append(users, doc)
                 /\ IF cacheSetError(userCache, otherKeys.user) # ""
                    THEN /\ last' = Failure("register", userData, registerStatusCode(full), full)
                         /\ UNCHANGED <<userCache, registered>>
                    ELSE /\ userCache' = CacheSet(userCache, UserKey(userData.email),
                                                  userWithoutPassword(doc), stdTTL)
                         /\ registered' = registered \cup {userData.email}
                         /\ last' = Success("register", userData, 201,
                                            "User registered successfully",
                                            userWithoutPassword(doc))
            ELSE /\ last' = Failure("register", userData, registerStatusCode(message), message)
                 /\ UNCHANGED <<users, userCache, registered>>

-----------------------------------------------------------------------------
(* UserController.login and UserService.authenticateUser *)

MissingLoginField(body) == Falsy(body, "email") \/ Falsy(body, "password")

(* catch block of UserController.login *)
loginStatusCode(errorMessage) == 401

(* Mutant: an unknown email gets its own message *)
authenticateUserError_Distinct(i, password) ==
    IF i = 0 THEN "User not found"
    ELSE IF comparePassword(users[i], password) = "true" THEN ""
    ELSE "Invalid email or password"

(* Mutant: the password is not compared *)
authenticateUserError_AnyPassword(i, password) ==
    IF i = 0 THEN "Invalid email or password" ELSE ""

(* authenticateUser with findOne returning user i (0: no user): the message *)
(* of the error thrown inside the try block, or ""                          *)
authenticateUserError(i, password) ==
    IF i = 0 THEN "Invalid email or password"
    ELSE LET valid == comparePassword(users[i], password)
         IN IF valid = "error" THEN "Password comparison error: Error: pchstr must contain a $ as first char"
            ELSE IF valid = "false" THEN "Invalid email or password"
            ELSE ""

(* authenticateUser as a whole: the message of the error thrown inside the  *)
(* try block, userCache.set included, or ""                                 *)
authenticateUserResult(cache, others, i, password) ==
    IF authenticateUserError(i, password) # ""
    THEN authenticateUserError(i, password)
    ELSE cacheSetError(cache, others)

(* The documents findOne may return: any match, or 0 (null) without one *)
FindOneUser(email) == IF FindUsers(email) = {} THEN {0} ELSE FindUsers(email)

(* What authenticateUser puts in the cache and returns *)
authenticatedUser(user) == userWithoutPassword(user)

login(body) ==
    /\ UNCHANGED <<users, pending, registered, envVars, itemVars, now>>
    /\ IF MissingLoginField(body)
       THEN /\ last' = Failure("login", body, 400, "Email and password are required")
            /\ UNCHANGED userCache
       ELSE IF ~isConnected
       THEN LET message == "Authentication failed: " \o StoreError
            IN /\ last' = Failure("login", body, loginStatusCode(message), message)
               /\ UNCHANGED userCache
       ELSE LET normalizedEmail == toLowerCase(body.email)
            IN \E i \in FindOneUser(normalizedEmail) :
                 LET err == authenticateUserResult(userCache, otherKeys.user, i, body.password)
                     message == "Authentication failed: " \o err
                 IN IF err # ""
                    THEN /\ last' = Failure("login", body, loginStatusCode(message), message)
                         /\ UNCHANGED userCache
                    ELSE /\ userCache' = CacheSet(userCache, UserKey(normalizedEmail),
                                                  authenticatedUser(users[i]), stdTTL)
                         /\ last' = Success("login", body, 200, "Login successful",
                                            authenticatedUser(users[i]))

-----------------------------------------------------------------------------
(* UserService.findUserByEmail and UserService.clearCache *)

(* What findUserByEmail puts in the cache on a miss: user.toObject() of a   *)
(* document fetched with select('+password')                                *)
userForCache(user) == user

findUserByEmail(email) ==
    /\ UNCHANGED <<users, pending, registered, envVars, itemVars, now, last>>
    /\ LET normalizedEmail == toLowerCase(email)
           key == UserKey(normalizedEmail)
       IN IF CacheHas(userCache, key)
          THEN UNCHANGED userCache
          ELSE IF ~isConnected
          THEN userCache' = CacheAfterGet(userCache, key)
          ELSE \E i \in FindOneUser(normalizedEmail) :
                 IF i = 0 \/ cacheSetError(CacheAfterGet(userCache, key), otherKeys.user) # ""
                 THEN userCache' = CacheAfterGet(userCache, key)
                 ELSE userCache' = CacheSet(CacheAfterGet(userCache, key), key,
                                            userForCache(users[i]), stdTTL)

ClearCacheArgs == {<< >>} \cup [email : Emails]

(* Mutant: the key is built from the email as given *)
clearCache_CaseSensitive(arg) ==
    /\ UNCHANGED <<users, pending, registered, processVars, itemVars, now, last>>
    /\ IF ~Falsy(arg, "email")
       THEN userCache' = CacheDel(userCache, UserKey(arg.email)) /\ UNCHANGED otherKeys
       ELSE userCache' = EmptyCache /\ otherKeys' = [otherKeys EXCEPT !.user = 0]

clearCache(arg) ==
    /\ UNCHANGED <<users, pending, registered, processVars, itemVars, now, last>>
    /\ IF ~Falsy(arg, "email")
       THEN userCache' = CacheDel(userCache, UserKey(toLowerCase(arg.email)))
            /\ UNCHANGED otherKeys
       ELSE userCache' = EmptyCache /\ otherKeys' = [otherKeys EXCEPT !.user = 0]

(* node-cache's periodic _checkData (checkperiod: 60) *)
userCacheCheck ==
    /\ userCache' = CacheSweep(userCache)
    /\ UNCHANGED <<users, pending, registered, envVars, itemVars, now, last>>

-----------------------------------------------------------------------------------------------------------------------------------------------------
(* Item model, ItemController and ItemService *)

(* item.id: the ObjectId of the n-th inserted document, as 24 hex digits *)
ObjectId(n) == "65f1c0de00000000000000a" \o ToString(n)

HexDigits == {"0", "1", "2", "3", "4", "5", "6", "7", "8", "9", "a", "b", "c", "d", "e", "f"}

(* Whether mongoose can cast the string to an ObjectId *)
IsObjectId(s) == Len(s) = 24 /\ \A i \in 1..24 : CharAt(s, i) \in HexDigits

ItemBodies ==
    {[name |-> "Pen", price |-> 0],
     [name |-> "Pen", price |-> -1],
     [name |-> "Ink", price |-> 5, description |-> "blue"],
     [name |-> "", price |-> 0],
     [name |-> "Pen"]}

ItemIds == {ObjectId(n) : n \in 1..(MaxItems + 1)} \cup {"abc"}

(* !itemData.name || itemData.price === undefined *)
MissingItemField(body) == Falsy(body, "name") \/ "price" \notin DOMAIN body

(* @IsNotEmpty on name *)
IsNotEmpty(body) == ~Falsy(body, "name")

(* Mutant: the price must be strictly positive *)
Min_Positive(body) == "price" \in DOMAIN body /\ body.price > MinPrice

(* @Min(0) on price *)
Min(body) == "price" \in DOMAIN body /\ body.price >= MinPrice

(* class-validator validate(item): the constraint messages, in property order *)
ValidateItem(body) ==
    (IF IsNotEmpty(body) THEN << >> ELSE <<"Item name is required">>)
      \o (IF Min(body) THEN << >> ELSE <<"Price must be greater than or equal to 0">>)

(* new Item(itemData) *)
NewItem(itemData, n) == [f \in DOMAIN itemData \cup {"_id"} |->
                            IF f = "_id" THEN ObjectId(n) ELSE itemData[f]]

ItemKey(id) == "item_" \o id

AllItemsKey == "all_items"

(* catch block of ItemController.createItem *)
createItemStatusCode(errorMessage) == 400

(* ItemController.createItem around ItemService.createItem *)
createItem(body) ==
    /\ UNCHANGED <<userVars, envVars, listing, now>>
    /\ IF MissingItemField(body)
       THEN /\ last' = Failure("createItem", body, 400, "Name and price are required fields")
            /\ UNCHANGED <<items, itemCache>>
       ELSE IF ValidateItem(body) # << >>
       THEN LET message == "Validation failed: " \o Join(ValidateItem(body), ", ")
            IN /\ last' = Failure("createItem", body, createItemStatusCode(message), message)
               /\ UNCHANGED <<items, itemCache>>
       ELSE IF ~isConnected
       THEN /\ last' = Failure("createItem", body, createItemStatusCode(StoreError), StoreError)
            /\ UNCHANGED <<items, itemCache>>
       ELSE LET item == NewItem(body, Len(items) + 1)
                full == cacheSetError(itemCache, otherKeys.item)
            IN /\ Len(items) < MaxItems
               /\ items' = Append(items, item)
               /\ IF full # ""
                  THEN /\ last' = Failure("createItem", body, createItemStatusCode(full), full)
                       /\ UNCHANGED itemCache
                  ELSE /\ itemCache' = CacheSet(itemCache, ItemKey(item._id), item, itemStdTTL)
                       /\ last' = Success("createItem", body, 201,
                                          "Item created successfully", item)

Idle == [pc |-> "idle"]

(* ItemController.getAllItems: the cache lookup that opens ItemService.getAllItems *)
getAllItems(c) ==
    /\ listing[c] = Idle
    /\ UNCHANGED <<userVars, envVars, items, now>>
    /\ IF CacheHas(itemCache, AllItemsKey)
       THEN /\ last' = Success("getAllItems", << >>, 200, "Items retrieved successfully",
                               itemCache[AllItemsKey].v)
            /\ UNCHANGED <<itemCache, listing>>
       ELSE /\ itemCache' = CacheAfterGet(itemCache, AllItemsKey)
            /\ listing' = [listing EXCEPT ![c] = [pc |-> "find"]]
            /\ UNCHANGED last

(* Item.find().lean().exec() answers *)
getAllItemsFind(c) ==
    /\ listing[c] = [pc |-> "find"]
    /\ UNCHANGED <<userVars, envVars, items, itemCache, now>>
    /\ IF ~isConnected
       THEN /\ listing' = [listing EXCEPT ![c] = Idle]
            /\ last' = Failure("getAllItems", << >>, 500, "Failed to retrieve items")
       ELSE /\ listing' = [listing EXCEPT ![c] = [pc |-> "found", items |-> items]]
            /\ UNCHANGED last

(* getAllItems resumes: caches the list for 5 minutes and returns it *)
getAllItemsReturn(c) ==
    /\ listing[c].pc = "found"
    /\ listing' = [listing EXCEPT ![c] = Idle]
    /\ IF cacheSetError(itemCache, otherKeys.item) # ""
       THEN /\ last' = Failure("getAllItems", << >>, 500, "Failed to retrieve items")
            /\ UNCHANGED itemCache
       ELSE /\ itemCache' = CacheSet(itemCache, AllItemsKey, listing[c].items, allItemsTTL)
            /\ last' = Success("getAllItems", << >>, 200, "Items retrieved successfully",
                               listing[c].items)
    /\ UNCHANGED <<userVars, envVars, items, now>>

(* Item.findById(id): the matching documents' indexes *)
FindItems(id) == {i \in 1..Len(items) : items[i]._id = id}

(* ItemController.getItemById around ItemService.getItemById *)
getItemById(id) ==
    /\ UNCHANGED <<userVars, envVars, items, listing, now>>
    /\ LET body == [id |-> id]
       IN IF CacheHas(itemCache, ItemKey(id))
          THEN /\ last' = Success("getItemById", body, 200, "Item retrieved successfully",
                                  itemCache[ItemKey(id)].v)
               /\ UNCHANGED itemCache
          ELSE IF \/ ~IsObjectId(id)
                  \/ ~isConnected
                  \/ /\ FindItems(id) # {}
                     /\ cacheSetError(CacheAfterGet(itemCache, ItemKey(id)), otherKeys.item) # ""
          THEN /\ last' = Failure("getItemById", body, 500, "Failed to retrieve item")
               /\ itemCache' = CacheAfterGet(itemCache, ItemKey(id))
          ELSE IF FindItems(id) = {}
          THEN /\ last' = Failure("getItemById", body, 404, "Item not found")
               /\ itemCache' = CacheAfterGet(itemCache, ItemKey(id))
          ELSE LET item == items[CHOOSE i \in FindItems(id) : TRUE]
               IN /\ itemCache' = CacheSet(itemCache, ItemKey(id), item, itemStdTTL)
                  /\ last' = Success("getItemById", body, 200,
                                     "Item retrieved successfully", item)

InvalidateArgs == {<< >>} \cup [id : ItemIds]

(* ItemService.invalidateCache *)
invalidateCache(arg) ==
    /\ UNCHANGED <<userVars, envVars, items, listing, now, last>>
    /\ itemCache' = CacheDel(IF ~Falsy(arg, "id") THEN CacheDel(itemCache, ItemKey(arg.id))
                             ELSE itemCache,
                             AllItemsKey)

(* node-cache's periodic _checkData (checkperiod: 60) *)
itemCacheCheck ==
    /\ itemCache' = CacheSweep(itemCache)
    /\ UNCHANGED <<userVars, envVars, items, listing, now, last>>

-----
(* Time *)

TickStep == stdTTL + 1

Tick ==
    /\ now < MaxTicks * TickStep
    /\ now' = now + TickStep
    /\ UNCHANGED <<userVars, envVars, itemVars, last>>

-----------------------------------------------------------------------------

(* The server process *)

(* startServer's options that change its course, with cluster.isPrimary *)
StartOptions ==
    [connectDb : BOOLEAN, appFactory : BOOLEAN, enableClustering : BOOLEAN, isPrimary : BOOLEAN]

NoOptions == << >>

(* index.ts run directly: startServer({ enableClustering: ... }) *)
MainOptions == {o \in StartOptions : o.connectDb /\ ~o.appFactory}

(* The events connectToDatabase listens to on mongoose.connection *)
ConnectionEvents == {"error", "disconnected", "reconnected"}

(* Who calls connectToDatabase: startServer, and any other importer of it *)
ConnectCallers == {"startServer", "caller"}

DatabaseConnected == "Database connected successfully"
ServerRunning == "Server is running on port"

(* The process has not called process.exit *)
Alive == phase \notin {"exit0", "exit1"}

-----------------------------------------------------------------------------

InitServices ==
    /\ users = << >>
    /\ userCache = EmptyCache
    /\ pending = [c \in Calls |-> {}]
    /\ registered = {}
    /\ items = << >>
    /\ itemCache = EmptyCache
    /\ listing = [c \in ListCalls |-> Idle]
    /\ now = 0
    /\ last = NoRequest
    /\ owed = 0
    /\ promised = [c \in ListCalls |-> 0]
    /\ due = 0
    /\ returned = NoCall
    /\ configRead = << >>

(* No call of connectToDatabase or shutdownGracefully is under way and no  *)
(* worker was forked                                                        *)
InitProcess ==
    /\ dbCall = [c \in ConnectCallers |-> "idle"]
    /\ disconnecting = 0
    /\ timers = 0
    /\ signals = 0
    /\ numCPUs = 0
    /\ workers = 0
    /\ exitEvents = 0
    /\ forks = 0

(* Neither cache holds a key besides the entries followed here *)
NoOtherKeys == [user |-> 0, item |-> 0]

InitData ==
    /\ InitServices
    /\ InitProcess
    /\ nodeEnv \in NodeEnvs
    /\ portEnv = Unset
    /\ otherKeys = NoOtherKeys

(* startServer() of index.ts has connected and the server listens *)
Started ==
    /\ isConnected = TRUE
    /\ phase = "listening"
    /\ options = [connectDb |-> TRUE, appFactory |-> FALSE,
                  enableClustering |-> FALSE, isPrimary |-> TRUE]
    /\ app = "createApp"
    /\ connects = 1
    /\ listeners = [e \in ConnectionEvents |-> 1]
    /\ log = {DatabaseConnected, ServerRunning}

(* The process after startServer() of index.ts has connected and listens *)
Init == InitData /\ Started

(* startServer has not been called *)
NotStarted ==
    /\ isConnected = FALSE
    /\ phase = "starting"
    /\ options = NoOptions
    /\ app = "none"
    /\ connects = 0
    /\ listeners = [e \in ConnectionEvents |-> 0]
    /\ log = {}

(* The process when index.ts starts to run *)
InitServer == InitData /\ NotStarted

(* The HTTP server accepts requests: it listens and has not exited *)
Serving == phase \in {"listening", "stopping"}

(* Requests against the user service; the clock stands still *)
NextUser ==
    \/ \E c \in Calls, body \in RegisterBodies : register(c, body) /\ UNCHANGED histVars
    \/ \E c \in Calls : registerSave(c) /\ UNCHANGED histVars
    \/ \E body \in LoginBodies : login(body) /\ UNCHANGED histVars
    \/ \E email \in Emails : findUserByEmail(email) /\ UNCHANGED histVars
    \/ \E arg \in ClearCacheArgs : clearCache(arg) /\ UNCHANGED histVars

SpecUser == Init /\ [][NextUser]_vars

(* The same with time passing and the cache's periodic check *)
NextUserCache ==
    \/ NextUser
    \/ userCacheCheck /\ UNCHANGED histVars
    \/ Tick /\ UNCHANGED histVars

SpecUserCache == Init /\ [][NextUserCache]_vars

(* Requests against the item service, with time passing *)
NextItem ==
    \/ \E body \in ItemBodies : createItem(body) /\ UNCHANGED histVars
    \/ \E c \in ListCalls : getAllItems(c) /\ UNCHANGED histVars
    \/ \E c \in ListCalls : getAllItemsFind(c) /\ UNCHANGED histVars
    \/ \E c \in ListCalls : getAllItemsReturn(c) /\ UNCHANGED histVars
    \/ \E id \in ItemIds : getItemById(id) /\ UNCHANGED histVars
    \/ \E arg \in InvalidateArgs : invalidateCache(arg) /\ UNCHANGED histVars
    \/ itemCacheCheck /\ UNCHANGED histVars
    \/ Tick /\ UNCHANGED histVars

(* The item service does not read NODE_ENV *)
InitItem == Init /\ nodeEnv = "development"

SpecItem == InitItem /\ [][NextItem]_vars

(* 'all_items' is cached and passes its expiry time during the coming tick *)
AllItemsExpires ==
    /\ AllItemsKey \in DOMAIN itemCache
    /\ ~Expired(itemCache, AllItemsKey)
    /\ itemCache[AllItemsKey].t < now + TickStep

(* The same requests, observed: owed is the number of stored items when     *)
(* 'all_items' was last invalidated or expired, until a getAllItems call    *)
(* starts and takes the number over (promised); due is what the response    *)
(* sent in this step had taken over.                                        *)
NextItemObserved ==
    \/ \E body \in ItemBodies :
          createItem(body) /\ due' = 0 /\ UNCHANGED <<owed, promised, returned, configRead>>
    \/ \E c \in ListCalls :
          /\ getAllItems(c)
          /\ owed' = 0
          /\ promised' = [promised EXCEPT ![c] = IF listing'[c] = Idle THEN 0 ELSE owed]
          /\ due' = IF listing'[c] = Idle THEN owed ELSE 0
          /\ UNCHANGED <<returned, configRead>>
    \/ \E c \in ListCalls :
          getAllItemsFind(c) /\ due' = 0 /\ UNCHANGED <<owed, promised, returned, configRead>>
    \/ \E c \in ListCalls :
          /\ getAllItemsReturn(c)
          /\ due' = promised[c]
          /\ promised' = [promised EXCEPT ![c] = 0]
          /\ UNCHANGED <<owed, returned, configRead>>
    \/ \E id \in ItemIds :
          getItemById(id) /\ due' = 0 /\ UNCHANGED <<owed, promised, returned, configRead>>
    \/ \E arg \in InvalidateArgs :
          invalidateCache(arg) /\ owed' = Len(items) /\ due' = 0
            /\ UNCHANGED <<promised, returned, configRead>>
    \/ itemCacheCheck /\ due' = 0 /\ UNCHANGED <<owed, promised, returned, configRead>>
    \/ /\ Tick
       /\ owed' = IF AllItemsExpires THEN Len(items) ELSE owed
       /\ due' = 0
       /\ UNCHANGED <<promised, returned, configRead>>

SpecItemObserved == InitItem /\ [][NextItemObserved]_vars

-----------------------------------------------------------------------------
(* The two caches under time.  The services share no state, so a behaviour  *)
(* sends its requests to one of them; every cache call is recorded in       *)
(* returned together with the outcome of its get().                         *)

CacheRegisterBodies ==
    {[BaseRegisterBody EXCEPT !.email = e] : e \in {"a@x.io", "b@x.io"}}

CacheLoginBodies == [email : {"a@x.io"}, password : {"Password1!", "Passw0rd2!"}]

CacheItemBodies == {b \in ItemBodies : ~MissingItemField(b) /\ ValidateItem(b) = << >>}

UserServiceUnused ==
    /\ users = << >>
    /\ userCache = EmptyCache
    /\ \A c \in Calls : pending[c] = {}
    /\ last.op \notin {"register", "login"}

ItemServiceUnused ==
    /\ items = << >>
    /\ itemCache = EmptyCache
    /\ \A c \in ListCalls : listing[c] = Idle
    /\ last.op \notin {"createItem", "getAllItems", "getItemById"}

Get(op, cache, key) == [op |-> op, key |-> key, hit |-> CacheHas(cache, key)]

(* What a request against the user service leaves alone *)
UserOnly == Serving /\ ItemServiceUnused /\ UNCHANGED listVars

(* What a request against the item service leaves alone *)
ItemOnly == Serving /\ UserServiceUnused /\ UNCHANGED listVars

UserCacheRequest ==
    \/ \E body \in CacheRegisterBodies :
          UserOnly /\ register("c1", body) /\ returned' = NoCall
    \/ UserOnly /\ registerSave("c1") /\ returned' = NoCall
    \/ \E body \in CacheLoginBodies :
          UserOnly /\ login(body) /\ returned' = NoCall
    \/ \E email \in Emails :
          /\ UserOnly
          /\ findUserByEmail(email)
          /\ returned' = Get("findUserByEmail", userCache, UserKey(toLowerCase(email)))
    \/ \E arg \in ClearCacheArgs :
          UserOnly /\ clearCache(arg) /\ returned' = [op |-> "clearCache", arg |-> arg]
    \/ UserOnly /\ userCacheCheck /\ returned' = NoCall

ItemCacheRequest ==
    \/ \E body \in CacheItemBodies :
          ItemOnly /\ createItem(body) /\ returned' = NoCall
    \/ \E c \in ListCalls :
          ItemOnly /\ getAllItems(c) /\ returned' = Get("getAllItems", itemCache, AllItemsKey)
    \/ \E c \in ListCalls :
          ItemOnly /\ getAllItemsFind(c) /\ returned' = NoCall
    \/ \E c \in ListCalls :
          ItemOnly /\ getAllItemsReturn(c) /\ returned' = NoCall
    \/ \E id \in ItemIds :
          ItemOnly /\ getItemById(id) /\ returned' = Get("getItemById", itemCache, ItemKey(id))
    \/ ItemOnly /\ itemCacheCheck /\ returned' = NoCall

NextCache ==
    \/ UserCacheRequest
    \/ ItemCacheRequest
    \/ Tick /\ returned' = NoCall /\ UNCHANGED listVars

SpecCache == InitItem /\ [][NextCache]_vars

(* The same with caches that other users and items have filled, or filled   *)
(* but for one key.  A behaviour uses one service, so both caches are given *)
(* the same load.                                                           *)
KeyLoads == {0, maxKeys - 1, maxKeys}

InitCapacity ==
    /\ InitServices
    /\ InitProcess
    /\ Started
    /\ nodeEnv = "development"
    /\ portEnv = Unset
    /\ \E n \in KeyLoads : otherKeys = [user |-> n, item |-> n]

SpecCapacity == InitCapacity /\ [][NextCache]_vars

-----------------------------------------------------------------------------
(* The application: every route of the router, the error middleware of      *)
(* createApp and the mongoose connection going down and coming back.        *)

(* GET / *)
home ==
    /\ Serving
    /\ last' = Success("home", << >>, 200, "Welcome to the Express TypeScript server!",
                       [timestamp |-> now])
    /\ UNCHANGED <<userVars, envVars, itemVars, now, histVars>>

(* GET /health *)
health ==
    /\ Serving
    /\ last' = Success("health", << >>, 200, "Server is healthy",
                       [uptime |-> now, timestamp |-> now])
    /\ UNCHANGED <<userVars, envVars, itemVars, now, histVars>>

(* The routes that take a JSON body *)
BodyRoutes == {"register", "login", "createItem"}

(* A body express.json() cannot parse *)
MalformedJson == "{"

(* Mutant: the error middleware answers in express's own style *)
errorHandler_Plain(op) ==
    /\ Serving
    /\ last' = [op |-> op, body |-> MalformedJson, status |-> 500,
                res |-> [error |-> "Internal server error"]]
    /\ UNCHANGED <<userVars, envVars, itemVars, now, histVars>>

(* express.json() passes its SyntaxError to next(): the error middleware    *)
(* answers and the route's handler is not run                               *)
errorHandler(op) ==
    /\ Serving
    /\ last' = Failure(op, MalformedJson, 500, "Internal server error")
    /\ UNCHANGED <<userVars, envVars, itemVars, now, histVars>>

(* mongoose.connection 'disconnected' event: the listener clears the flag *)
disconnected ==
    /\ Serving
    /\ isConnected
    /\ listeners["disconnected"] > 0
    /\ isConnected' = FALSE
    /\ connects' = 0
    /\ UNCHANGED <<userVars, nodeEnv, phase, portEnv, otherKeys, itemVars, now, last, histVars>>
    /\ UNCHANGED <<options, app, dbCall, listeners, disconnecting, timers, signals, log,
                   clusterVars>>

(* mongoose.connection 'reconnected' event: the listener sets the flag *)
reconnected ==
    /\ phase = "listening"
    /\ ~isConnected
    /\ listeners["reconnected"] > 0
    /\ isConnected' = TRUE
    /\ UNCHANGED <<userVars, nodeEnv, phase, portEnv, procVars, otherKeys, itemVars, now, last, histVars>>

UserRoutes ==
    \/ \E body \in RegisterBodies :
          UserOnly /\ register("c1", body) /\ UNCHANGED returned
    \/ UserOnly /\ registerSave("c1") /\ UNCHANGED returned
    \/ \E body \in LoginBodies :
          UserOnly /\ login(body) /\ UNCHANGED returned

ItemRoutes ==
    \/ \E body \in ItemBodies :
          ItemOnly /\ createItem(body) /\ UNCHANGED returned
    \/ \E c \in ListCalls :
          ItemOnly /\ getAllItems(c) /\ UNCHANGED returned
    \/ \E c \in ListCalls :
          ItemOnly /\ getAllItemsFind(c) /\ UNCHANGED returned
    \/ \E c \in ListCalls :
          ItemOnly /\ getAllItemsReturn(c) /\ UNCHANGED returned
    \/ \E id \in ItemIds :
          ItemOnly /\ getItemById(id) /\ UNCHANGED returned

NextApp ==
    \/ home
    \/ health
    \/ \E op \in BodyRoutes : errorHandler(op)
    \/ UserRoutes
    \/ ItemRoutes
    \/ disconnected
    \/ reconnected

SpecApp == Init /\ [][NextApp]_vars

-----------------------------------------------------------------------------
(* The server process: startServer, connectToDatabase, the cluster and the  *)
(* shutdown handlers of index.ts                                            *)

MaxConnects == 2
MaxSignals == 2
MaxExits == 2
MaxWorkers == 4

(* os.cpus().length *)
CPUs == {1, 2, 4, 8}

(* Mutant: one worker per CPU *)
workerCount_PerCPU == numCPUs

(* const workerCount = Math.min(numCPUs, 4) *)
workerCount == IF numCPUs < MaxWorkers THEN numCPUs ELSE MaxWorkers

(* What app.listen makes of the process; a shutdown may have begun before *)
Listening == IF signals > 0 THEN "stopping" ELSE "listening"

(* What the process keeps untouched when only its own variables move *)
ProcessOnly == UNCHANGED <<userVars, nodeEnv, portEnv, otherKeys, itemVars, now, last, histVars>>

(* startServer up to its first await or its return.  The primary of a       *)
(* cluster forks its workers and returns a server that never listens; any   *)
(* other process builds the app, awaits connectToDatabase unless connectDb  *)
(* is false, and calls app.listen.                                          *)
startServer(o, cpus) ==
    /\ phase = "starting"
    /\ options = NoOptions
    /\ options' = o
    /\ ProcessOnly
    /\ UNCHANGED <<isConnected, listeners, disconnecting, timers, signals, exitEvents>>
    /\ IF o.enableClustering /\ o.isPrimary
       THEN /\ numCPUs' = cpus
            /\ workers' = workerCount'
            /\ forks' = workerCount'
            /\ phase' = "primary"
            /\ UNCHANGED <<app, dbCall, connects, log>>
       ELSE /\ app' = IF o.appFactory THEN "appFactory" ELSE "createApp"
            /\ UNCHANGED <<numCPUs, workers, forks>>
            /\ IF ~o.connectDb
               THEN /\ phase' = Listening
                    /\ UNCHANGED <<dbCall, connects, log>>
               ELSE IF isConnected
               THEN /\ phase' = Listening
                    /\ log' = log \cup {DatabaseConnected}
                    /\ UNCHANGED <<dbCall, connects>>
               ELSE /\ dbCall' = [dbCall EXCEPT !["startServer"] = "connecting"]
                    /\ connects' = connects + 1
                    /\ UNCHANGED <<phase, log>>

(* The calls of mongoose.connect that have not settled *)
Connecting == Cardinality({c \in ConnectCallers : dbCall[c] = "connecting"})

(* connectToDatabase called by another importer, up to await mongoose.connect *)
connectToDatabase(c) ==
    /\ Alive
    /\ c # "startServer"
    /\ dbCall[c] = "idle"
    /\ Connecting + listeners["error"] < MaxConnects
    /\ ProcessOnly
    /\ UNCHANGED <<isConnected, phase, options, app, listeners, disconnecting, timers, signals,
                   log, clusterVars>>
    /\ IF isConnected
       THEN UNCHANGED <<dbCall, connects>>
       ELSE /\ dbCall' = [dbCall EXCEPT ![c] = "connecting"]
            /\ connects' = connects + 1

(* mongoose.connect settles.  Resolved: the flag is set and the three       *)
(* listeners are added; startServer then logs and calls app.listen.         *)
(* Rejected: process.exit(1).                                               *)
connectSettled(c, resolved) ==
    /\ Alive
    /\ dbCall[c] = "connecting"
    /\ ProcessOnly
    /\ UNCHANGED <<options, app, connects, disconnecting, timers, signals, clusterVars>>
    /\ IF resolved
       THEN /\ isConnected' = TRUE
            /\ listeners' = [e \in ConnectionEvents |-> listeners[e] + 1]
            /\ dbCall' = [dbCall EXCEPT ![c] = "idle"]
            /\ IF c = "startServer"
               THEN phase' = Listening /\ log' = log \cup {DatabaseConnected}
               ELSE UNCHANGED <<phase, log>>
       ELSE /\ phase' = "exit1"
            /\ UNCHANGED <<isConnected, listeners, dbCall, log>>

(* Mutant: the message is written when startServer is entered *)
onListening_Early ==
    /\ Alive
    /\ options # NoOptions
    /\ ServerRunning \notin log
    /\ log' = log \cup {ServerRunning}
    /\ ProcessOnly
    /\ UNCHANGED <<isConnected, phase, options, app, dbCall, connects, listeners, disconnecting,
                   timers, signals, clusterVars>>

(* The 'listening' event of the HTTP server: the callback of app.listen *)
onListening ==
    /\ Serving
    /\ ServerRunning \notin log
    /\ log' = log \cup {ServerRunning}
    /\ ProcessOnly
    /\ UNCHANGED <<isConnected, phase, options, app, dbCall, connects, listeners, disconnecting,
                   timers, signals, clusterVars>>

(* A worker process ends *)
workerExit ==
    /\ phase = "primary"
    /\ workers > 0
    /\ forks < workerCount + MaxExits
    /\ workers' = workers - 1
    /\ exitEvents' = exitEvents + 1
    /\ ProcessOnly
    /\ UNCHANGED <<isConnected, phase, options, app, dbCall, connects, listeners, disconnecting,
                   timers, signals, log, numCPUs, forks>>

(* cluster.on('exit'): cluster.fork() *)
onWorkerExit ==
    /\ phase = "primary"
    /\ exitEvents > 0
    /\ exitEvents' = exitEvents - 1
    /\ workers' = workers + 1
    /\ forks' = forks + 1
    /\ ProcessOnly
    /\ UNCHANGED <<isConnected, phase, options, app, dbCall, connects, listeners, disconnecting,
                   timers, signals, log, numCPUs>>

(* Mutant: without a connection the handler returns before setTimeout *)
shutdownGracefully_NoTimer ==
    /\ Alive
    /\ options # NoOptions
    /\ signals < MaxSignals
    /\ signals' = signals + 1
    /\ phase' = IF phase = "listening" THEN "stopping" ELSE phase
    /\ IF isConnected
       THEN disconnecting' = disconnecting + 1 /\ UNCHANGED timers
       ELSE UNCHANGED <<timers, disconnecting>>
    /\ ProcessOnly
    /\ UNCHANGED <<isConnected, options, app, dbCall, connects, listeners, log, clusterVars>>

(* SIGTERM, SIGINT or an uncaught exception: shutdownGracefully runs up to  *)
(* await mongoose.disconnect(), or, without a connection, up to setTimeout; *)
(* the server keeps listening                                               *)
shutdownGracefully ==
    /\ Alive
    /\ options # NoOptions
    /\ signals < MaxSignals
    /\ signals' = signals + 1
    /\ phase' = IF phase = "listening" THEN "stopping" ELSE phase
    /\ IF isConnected
       THEN disconnecting' = disconnecting + 1 /\ UNCHANGED timers
       ELSE timers' = timers + 1 /\ UNCHANGED disconnecting
    /\ ProcessOnly
    /\ UNCHANGED <<isConnected, options, app, dbCall, connects, listeners, log, clusterVars>>

(* mongoose.disconnect settles; disconnectFromDatabase swallows a rejection *)
(* and shutdownGracefully arms its timer                                    *)
disconnectSettled(resolved) ==
    /\ Alive
    /\ disconnecting > 0
    /\ disconnecting' = disconnecting - 1
    /\ timers' = timers + 1
    /\ isConnected' = IF resolved THEN FALSE ELSE isConnected
    /\ connects' = IF resolved THEN 0 ELSE connects
    /\ ProcessOnly
    /\ UNCHANGED <<phase, options, app, dbCall, listeners, signals, log, clusterVars>>

(* A timer of shutdownGracefully fires: process.exit(0) *)
forceExit ==
    /\ Alive
    /\ timers > 0
    /\ phase' = "exit0"
    /\ ProcessOnly
    /\ UNCHANGED <<isConnected, options, app, dbCall, connects, listeners, disconnecting,
                   timers, signals, log, clusterVars>>

(* index.ts run directly, serving requests *)
NextServer ==
    \/ \E o \in MainOptions, cpus \in CPUs : startServer(o, cpus)
    \/ \E resolved \in BOOLEAN : connectSettled("startServer", resolved)
    \/ onListening
    \/ NextApp
    \/ shutdownGracefully
    \/ \E resolved \in BOOLEAN : disconnectSettled(resolved)
    \/ forceExit

SpecServer == InitServer /\ [][NextServer]_vars

(* The process by itself: every way of starting it, other callers of        *)
(* connectToDatabase, the connection going down and coming back, the        *)
(* workers of a cluster and the shutdown                                    *)
NextProcess ==
    \/ \E o \in StartOptions, cpus \in CPUs : startServer(o, cpus)
    \/ \E c \in ConnectCallers : connectToDatabase(c)
    \/ \E c \in ConnectCallers, resolved \in BOOLEAN : connectSettled(c, resolved)
    \/ onListening
    \/ disconnected
    \/ reconnected
    \/ workerExit
    \/ onWorkerExit
    \/ shutdownGracefully
    \/ \E resolved \in BOOLEAN : disconnectSettled(resolved)
    \/ forceExit

SpecProcess == InitServer /\ [][NextProcess]_vars

(* The driver settles every promise, timers fire and the primary's event    *)
(* loop runs the 'exit' handler                                             *)
FairProcess ==
    /\ WF_vars(\E resolved \in BOOLEAN : disconnectSettled(resolved))
    /\ WF_vars(forceExit)
    /\ WF_vars(onWorkerExit)

SpecProcessLive == InitServer /\ [][NextProcess]_vars /\ FairProcess

-----------------------------------------------------------------------------
(* config: getters over process.env *)

DefaultPort == 3000

(* What parseInt yields for a string that does not start with a digit *)
NaN == -1

Digits == {"0", "1", "2", "3", "4", "5", "6", "7", "8", "9"}

DigitValue(c) == CHOOSE d \in 0..9 : ToString(d) = c

RECURSIVE ParseDigits(_, _)
ParseDigits(s, acc) ==
    IF Len(s) = 0 \/ CharAt(s, 1) \notin Digits THEN acc
    ELSE ParseDigits(SubSeq(s, 2, Len(s)), acc * 10 + DigitValue(CharAt(s, 1)))

(* parseInt(s) for strings without sign, leading blanks or 0x: the number   *)
(* written by the leading digits                                            *)
parseInt(s) ==
    IF Len(s) = 0 \/ CharAt(s, 1) \notin Digits THEN NaN ELSE ParseDigits(s, 0)

(* Mutant: the string 'undefined' is taken for a port number *)
port_Unchecked == IF portEnv # "" THEN parseInt(portEnv) ELSE DefaultPort

(* get port() *)
port ==
    IF portEnv # "" /\ portEnv # "undefined" THEN parseInt(portEnv) ELSE DefaultPort

(* get environment() *)
environment ==
    IF nodeEnv = "" \/ nodeEnv = "undefined" THEN "development" ELSE nodeEnv

(* Values given to PORT and NODE_ENV; assigning undefined stores 'undefined' *)
PortValues == {Unset, "undefined", "8080", "0", "80x", "abc"}
EnvValues == {Unset, "undefined", "development", "production", "test"}

(* The reads made so far become the reads made before the change *)
ReadBefore ==
    IF DOMAIN configRead \cap {"port", "environment"} = {} THEN configRead
    ELSE [before |-> [k \in DOMAIN configRead \ {"before"} |-> configRead[k]]]

(* process.env.PORT = value, or delete process.env.PORT *)
setPort(value) ==
    /\ portEnv' = value
    /\ portEnv' # portEnv
    /\ configRead' = ReadBefore
    /\ UNCHANGED <<userVars, nodeEnv, isConnected, phase, procVars, otherKeys, itemVars, now, last,
                   owed, promised, due, returned>>

(* process.env.NODE_ENV = value, or delete process.env.NODE_ENV *)
setNodeEnv(value) ==
    /\ nodeEnv' = value
    /\ nodeEnv' # nodeEnv
    /\ configRead' = ReadBefore
    /\ UNCHANGED <<userVars, portEnv, isConnected, phase, procVars, otherKeys, itemVars, now, last,
                   owed, promised, due, returned>>

(* A read of config.port *)
readPort ==
    /\ configRead' = ("port" :> port) @@ configRead
    /\ UNCHANGED <<userVars, envVars, itemVars, now, last, owed, promised, due, returned>>

(* A read of config.environment *)
readEnvironment ==
    /\ configRead' = ("environment" :> environment) @@ configRead
    /\ UNCHANGED <<userVars, envVars, itemVars, now, last, owed, promised, due, returned>>

NextConfig ==
    \/ \E value \in PortValues : setPort(value)
    \/ \E value \in EnvValues : setNodeEnv(value)
    \/ readPort
    \/ readEnvironment

InitConfig ==
    /\ InitServices
    /\ nodeEnv \in EnvValues
    /\ portEnv \in PortValues
    /\ otherKeys = NoOtherKeys
    /\ InitProcess
    /\ NotStarted

SpecConfig == InitConfig /\ [][NextConfig]_vars

-----------------------------------------------------------------------------
(* Claims about the user service *)

(* A request body in which one of the fields is missing or empty *)
LacksOneOf(body, fields) == \E k \in fields : k \notin DOMAIN body \/ body[k] = ""

LastEmail == toLowerCase(last.body.email)

RegisterCalled == last.op = "register" /\ ~LacksOneOf(last.body, RegisterFields)

LoginCalled == last.op = "login" /\ ~LacksOneOf(last.body, {"email", "password"})

(* C1: once registerUser has succeeded for an email, every registerUser     *)
(* call that starts later with the same email, letter case ignored, ends    *)
(* with an error containing 'already exists', is answered 409 and persists  *)
(* nothing: it neither reaches user.save() nor changes the collection.      *)
C1_SecondRegistrationRejected ==
    [][ /\ \A c \in Calls :
             (pending[c] = {} /\ pending'[c] # {})
                => \A u \in pending'[c] : toLowerCase(u.email) \notin registered
        /\ ( /\ last' # last
             /\ pending' = pending
             /\ last'.op = "register"
             /\ ~LacksOneOf(last'.body, RegisterFields)
             /\ toLowerCase(last'.body.email) \in registered )
           => /\ last'.status = 409
              /\ ~last'.res.success
              /\ Includes(last'.res.message, "already exists")
              /\ users' = users ]_vars

C1_Witness ==
    /\ last.op = "register"
    /\ last.status = 409
    /\ last.body.email = "A@X.IO"
    /\ "a@x.io" \in registered
    /\ Len(users) = 1

(* C2: the collection never holds two user records with the same           *)
(* lowercased email, whatever the interleaving of registerUser calls.       *)
C2_EmailUnique ==
    \A i, j \in 1..Len(users) :
        toLowerCase(users[i].email) = toLowerCase(users[j].email) => i = j

(* C3: every persisted password is an argon2 hash; the record persisted by  *)
(* a registration holds the hash of the submitted password (it verifies     *)
(* against it) and differs from the submitted password.                     *)
C3_StoredPasswordHashed ==
    /\ \A i \in 1..Len(users) :
          \E p \in Passwords : argon2Verify(users[i].password, p) = "true"
    /\ (last.op = "register" /\ last.status = 201)
          => LET stored == users[last.res.data._id]
             IN /\ stored.password # last.body.password
                /\ argon2Verify(stored.password, last.body.password) = "true"

C3_Witness ==
    /\ last.op = "register"
    /\ last.status = 201
    /\ users[last.res.data._id].email = last.body.email

InvalidCredentials ==
    [success |-> FALSE, message |-> "Authentication failed: Invalid email or password"]

NeverRegistered == FindUsers(LastEmail) = {}

WrongPassword ==
    /\ FindUsers(LastEmail) # {}
    /\ \A i \in FindUsers(LastEmail) : comparePassword(users[i], last.body.password) = "false"

(* C4: a login with a never-registered email and a login with a registered  *)
(* email and a wrong password get the same answer: status 401 and the body  *)
(* {success: false, message: 'Authentication failed: Invalid email or       *)
(* password'}.                                                              *)
C4_SameAnswer ==
    (LoginCalled /\ (NeverRegistered \/ WrongPassword))
        => /\ last.status = 401
           /\ last.res = InvalidCredentials

C4_Witness ==
    /\ LoginCalled
    /\ WrongPassword
    /\ last.status = 401

(* C5: the data of every 201 register response and of every 200 login       *)
(* response has no password field.                                          *)
C5_NoPasswordReturned ==
    (last.op \in {"register", "login"} /\ last.status \in {200, 201})
        => /\ "data" \in DOMAIN last.res
           /\ "password" \notin DOMAIN last.res.data

C5_Witness ==
    /\ last.op = "login"
    /\ last.status = 200
    /\ last.res.data.email = "a@x.io"

(* C6: no value held in the user cache has a password field. *)
C6_CacheHoldsProjections ==
    \A k \in DOMAIN userCache : "password" \notin DOMAIN userCache[k].v

(* C7: a login is answered 200 with the public user object exactly when a   *)
(* record exists for the lowercased email whose stored hash the submitted   *)
(* password verifies against; any other login with both fields is 401.      *)
C7_LoginOutcome ==
    LoginCalled
        => LET ok == \E i \in FindUsers(LastEmail) :
                        comparePassword(users[i], last.body.password) = "true"
           IN IF ok
              THEN /\ last.status = 200
                   /\ last.res.success
                   /\ last.res.data.email = LastEmail
              ELSE last.status = 401

(* C8: a register request with a missing or empty field is answered 400     *)
(* with success=false and the service is not called: the collection, the    *)
(* cache and the set of suspended registerUser calls stay as they are, and  *)
(* no registerUser call ever holds such a body.                             *)
C8_MissingFieldRejected ==
    [][ /\ \A c \in Calls : \A u \in pending'[c] : ~LacksOneOf(u, RegisterFields)
        /\ (last' # last /\ last'.op = "register" /\ LacksOneOf(last'.body, RegisterFields))
           => /\ last'.status = 400
              /\ ~last'.res.success
              /\ UNCHANGED <<users, userCache, pending>> ]_vars

C8_Witness ==
    /\ last.op = "register"
    /\ "lastName" \notin DOMAIN last.body
    /\ last.status = 400
    /\ Len(users) = 1

InvalidUserData(body) == ValidateUser(NormalizeUserData(body)) # << >>

(* C9: a registration with all fields present that fails validation (email  *)
(* not an address, or password under 8 characters) is answered 400 and no   *)
(* such record is persisted, whatever NODE_ENV is.                          *)
C9_InvalidRejected ==
    /\ (RegisterCalled /\ InvalidUserData(last.body)) => last.status = 400
    /\ \A i \in 1..Len(users) : IsEmail(users[i].email)

(* C14: clearCache(email) removes the entry cached for that email, letter   *)
(* case ignored, and leaves every other entry as it is; clearCache()        *)
(* without an email leaves no entry.                                        *)
C14_ClearCacheFrame ==
    [][ returned'.op = "clearCache"
          => IF "email" \in DOMAIN returned'.arg
             THEN LET key == "user:" \o toLowerCase(returned'.arg.email)
                  IN /\ DOMAIN userCache' = DOMAIN userCache \ {key}
                     /\ \A k \in DOMAIN userCache' : userCache'[k] = userCache[k]
             ELSE DOMAIN userCache' = {} ]_vars

(* Two users were registered and cached; clearCache('A@X.IO') has run and   *)
(* only the entry of b@x.io is left                                         *)
C14_Witness ==
    /\ returned = [op |-> "clearCache", arg |-> [email |-> "A@X.IO"]]
    /\ registered = {"a@x.io", "b@x.io"}
    /\ DOMAIN userCache = {"user:b@x.io"}
    /\ now = 0

-----------------------------------------------------------------------------
(* Claims about the item service *)

NegativePriceOrNoName(body) ==
    \/ LacksOneOf(body, {"name"})
    \/ ("price" \in DOMAIN body /\ body.price < 0)

FreeItemWithName(body) ==
    /\ ~LacksOneOf(body, {"name"})
    /\ "price" \in DOMAIN body
    /\ body.price = 0

(* C10: creating an item with a negative price or an empty name is answered *)
(* 400 and neither the collection nor the item cache changes; creating one  *)
(* with price 0 and a name is answered 201, the item is appended to the     *)
(* collection and the cache holds it, unexpired, under item_<id>.           *)
C10_CreateItemValidation ==
    [][ (last' # last /\ last'.op = "createItem")
        => /\ NegativePriceOrNoName(last'.body)
                => /\ last'.status = 400
                   /\ ~last'.res.success
                   /\ UNCHANGED <<items, itemCache>>
           /\ FreeItemWithName(last'.body)
                => /\ last'.status = 201
                   /\ last'.res.success
                   /\ items' = Append(items, last'.res.data)
                   /\ last'.res.data.price = 0
                   /\ ("item_" \o last'.res.data._id) \in DOMAIN itemCache'
                   /\ itemCache'["item_" \o last'.res.data._id].v = last'.res.data
                   /\ itemCache'["item_" \o last'.res.data._id].t > now' ]_vars

C10_Witness ==
    /\ last.op = "createItem"
    /\ last.status = 201
    /\ last.body.price = 0
    /\ Len(items) = 2
    /\ items[2] = last.res.data
    /\ items[1].price = 5

(* C11: the first getAllItems call that starts after 'all_items' has been   *)
(* invalidated or has expired returns a list that contains every item       *)
(* created before that invalidation or expiry.                              *)
C11_ListReflectsNewItem ==
    due > 0
        => /\ last.op = "getAllItems"
           /\ last.status = 200
           /\ \A i \in 1..due :
                 \E j \in 1..Len(last.res.data) : last.res.data[j] = items[i]

(* The entry is in the cache and its expiry time has not passed *)
Unexpired(cache, key) == key \in DOMAIN cache /\ cache[key].t >= now

(* The entries of cache' that the step wrote *)
Written(before, after) ==
    {k \in DOMAIN after : k \notin DOMAIN before \/ after[k] # before[k]}

(* C12: while 'all_items' is cached and unexpired a getAllItems call is      *)
(* answered with the cached list and the store is not queried; otherwise    *)
(* the call reads all items from the store, answers with them and caches    *)
(* them under 'all_items' for 300 s, less than the 600 s of every item_<id> *)
(* entry.                                                                   *)
C12_ListServedFromCache ==
    [][ \A c \in ListCalls :
          /\ (listing[c].pc = "idle" /\ listing'[c].pc # "idle")
                => /\ ~Unexpired(itemCache, "all_items")
                   /\ listing'[c].pc = "find"
                   /\ last' = last
          /\ (listing' = listing /\ last' # last /\ last'.op = "getAllItems")
                => /\ Unexpired(itemCache, "all_items")
                   /\ last'.res.data = itemCache["all_items"].v
                   /\ last'.status = 200
                   /\ itemCache' = itemCache
          /\ (listing[c].pc = "find" /\ listing'[c] # listing[c])
                => listing'[c] = [pc |-> "found", items |-> items]
          /\ (listing[c].pc = "found" /\ listing'[c] # listing[c])
                => /\ listing'[c].pc = "idle"
                   /\ last'.op = "getAllItems"
                   /\ last'.res.data = listing[c].items
                   /\ itemCache'["all_items"].v = listing[c].items
          /\ \A k \in Written(itemCache, itemCache') :
                /\ k = "all_items" => itemCache'[k].t = now + 300
                /\ k # "all_items" => itemCache'[k].t = now + 600
                /\ 300 < 600 ]_vars

(* A list served from the cache although the store holds more by now *)
C12_Witness ==
    /\ last.op = "getAllItems"
    /\ Unexpired(itemCache, "all_items")
    /\ listing["c1"].pc = "idle"
    /\ last.res.data = itemCache["all_items"].v
    /\ Len(last.res.data) = 1
    /\ Len(items) = 2
    /\ now > 0

(* C13: invalidateCache(id) removes the entry item_<id>, invalidateCache()  *)
(* removes every item_<id> entry, and after either 'all_items' is absent.   *)
C13_InvalidateClears ==
    [][ \A arg \in InvalidateArgs :
          invalidateCache(arg)
            => /\ "all_items" \notin DOMAIN itemCache'
               /\ IF "id" \in DOMAIN arg
                  THEN ("item_" \o arg.id) \notin DOMAIN itemCache'
                  ELSE DOMAIN itemCache' = {} ]_vars

(* C16: GET /items/:id is answered 200 with the item when an item with     *)
(* that id is cached or stored, and 404 'Item not found' when there is      *)
(* none; nothing is cached for an id without an item.                       *)
C16_GetItemByIdOutcome ==
    last.op = "getItemById"
        => LET id == last.body.id
           IN IF \/ \E i \in 1..Len(items) : items[i]._id = id
                 \/ ("item_" \o id) \in DOMAIN itemCache
              THEN /\ last.status = 200
                   /\ last.res.success
                   /\ last.res.data._id = id
              ELSE /\ last.status = 404
                   /\ last.res = [success |-> FALSE, message |-> "Item not found"]

-----------------------------------------------------------------------------
(* Claims about both caches *)

(* C15: every entry is written with an expiry time of 300 s (user entries   *)
(* and 'all_items') or 600 s (item_<id>) from the write; a get() hits only  *)
(* an entry whose expiry time has not passed, whether or not the sweep has  *)
(* removed the expired ones; a read that misses goes to the store:          *)
(* findUserByEmail caches the stored user anew or leaves no entry,          *)
(* getItemById answers with the stored item and caches it anew or answers   *)
(* without an entry, getAllItems goes on to Item.find().                    *)
C15_NoExpiredEntryReturned ==
    [][ /\ \A k \in Written(userCache, userCache') : userCache'[k].t = now + 300
        /\ \A k \in Written(itemCache, itemCache') :
              itemCache'[k].t = now + (IF k = "all_items" THEN 300 ELSE 600)
        /\ returned'.op \in {"findUserByEmail", "getItemById", "getAllItems"}
              => LET key == returned'.key
                     cache == IF returned'.op = "findUserByEmail" THEN userCache
                              ELSE itemCache
                 IN /\ returned'.hit => Unexpired(cache, key)
                    /\ (key \in DOMAIN cache /\ cache[key].t < now) => ~returned'.hit
                    /\ (~returned'.hit /\ returned'.op = "findUserByEmail")
                          => IF \E i \in 1..Len(users) : "user:" \o users[i].email = key
                             THEN /\ key \in DOMAIN userCache'
                                  /\ userCache'[key].t = now + 300
                                  /\ \E i \in 1..Len(users) : userCache'[key].v = users[i]
                             ELSE key \notin DOMAIN userCache'
                    /\ (~returned'.hit /\ returned'.op = "getItemById")
                          => /\ last'.op = "getItemById"
                             /\ IF last'.status = 200
                                THEN /\ \E i \in 1..Len(items) : last'.res.data = items[i]
                                     /\ itemCache'[key] = [v |-> last'.res.data, t |-> now + 600]
                                ELSE key \notin DOMAIN itemCache'
                    /\ (~returned'.hit /\ returned'.op = "getAllItems")
                          => \E c \in ListCalls :
                                listing[c].pc = "idle" /\ listing'[c].pc = "find" ]_vars

(* An item read again more than 600 s after it was cached: the read missed  *)
(* and cached it anew, while the expired 'all_items' entry is still there   *)
C15_Witness ==
    /\ returned = [op |-> "getItemById", key |-> "item_65f1c0de00000000000000a1", hit |-> FALSE]
    /\ last.status = 200
    /\ now > 600
    /\ itemCache["item_65f1c0de00000000000000a1"].t = now + 600
    /\ "all_items" \in DOMAIN itemCache
    /\ itemCache["all_items"].t < now

-----------------------------------------------------------------------------
(* Claims about the application *)

(* The response reports a failure of the store *)
StoreFailed ==
    /\ "message" \in DOMAIN last.res
    /\ \/ Includes(last.res.message, "MongoNotConnectedError")
       \/ last.res.message \in {"Failed to retrieve items", "Failed to retrieve item"}

(* C17: on every endpoint a failure of the persistent store is answered     *)
(* with status 500.                                                         *)
C17_InternalErrorsAre500 == StoreFailed => last.status = 500

(* C18: every response of the user, item, home and health handlers and of   *)
(* the error middleware is {success, message, data?} with a boolean         *)
(* success and a string message, and success is true exactly when the       *)
(* status is 2xx.                                                           *)
C18_Envelope ==
    last.op # "none"
        => /\ {"success", "message"} \subseteq DOMAIN last.res
           /\ DOMAIN last.res \subseteq {"success", "message", "data"}
           /\ last.res.success \in BOOLEAN
           /\ last.res.message \in STRING
           /\ last.res.success <=> (last.status >= 200 /\ last.status <= 299)

(* The error middleware has answered a request whose body did not parse *)
C18_Witness ==
    /\ last.op = "login"
    /\ last.status = 500
    /\ last.res = [success |-> FALSE, message |-> "Internal server error"]
    /\ Len(users) = 1

(* C19: no failure terminates the server process, a failed database         *)
(* connection attempt included (the process exits with a failure code only  *)
(* through such a failure); every error met while handling a request is     *)
(* answered with an error response, and the error middleware answers 500    *)
(* {success: false, message: 'Internal server error'}.                      *)
C19_FailuresNeverExit ==
    /\ phase # "exit1"
    /\ StoreFailed => (~last.res.success /\ last.status >= 400)
    /\ (last.op # "none" /\ last.res.message = "Internal server error")
          => (last.status = 500 /\ ~last.res.success)

-----------------------------------------------------------------------------
(* Claims about the configuration *)

(* C20: a read of config.port returns 3000 when PORT is not set or is the   *)
(* string 'undefined' and otherwise the integer that PORT writes; a read of *)
(* config.environment returns 'development' when NODE_ENV is not set or is  *)
(* 'undefined' and otherwise NODE_ENV; both follow the environment as it is *)
(* at the read, also after it has changed since an earlier read.            *)
C20_ConfigFollowsEnvironment ==
    /\ "port" \in DOMAIN configRead
          => /\ portEnv \in {"", "undefined"} => configRead.port = 3000
             /\ portEnv \in {"8080", "0"} => ToString(configRead.port) = portEnv
    /\ "environment" \in DOMAIN configRead
          => configRead.environment =
                (IF nodeEnv \in {"", "undefined"} THEN "development" ELSE nodeEnv)

(* The third test case: 8080 and 'development' were read, PORT and NODE_ENV *)
(* were then assigned undefined and the next reads gave the defaults        *)
C20_Witness ==
    /\ DOMAIN configRead = {"port", "environment", "before"}
    /\ configRead.before = [port |-> 8080]
    /\ portEnv = "undefined"
    /\ nodeEnv = "undefined"
    /\ configRead.port = 3000
    /\ configRead.environment = "development"

-----------------------------------------------------------------------------
(* Claims about the process *)

(* startServer took the branch of a worker or of a process without cluster *)
StartedAsServer ==
    /\ DOMAIN options # {}
    /\ ~(options.enableClustering /\ options.isPrimary)

HasListened == phase \in {"listening", "stopping", "exit0", "exit1"}

(* C21: outside the primary of a cluster, startServer builds the app with   *)
(* appFactory when one is supplied; with connectDb false it never calls     *)
(* connectToDatabase and the server listens when startServer returns; with  *)
(* connectDb true the server listens only once connectToDatabase has        *)
(* returned a connection; and 'Server is running on port' is logged only    *)
(* once the server listens.                                                 *)
C21_StartServerOrder ==
    /\ StartedAsServer =>
          /\ app = (IF options.appFactory THEN "appFactory" ELSE "createApp")
          /\ ~options.connectDb =>
                /\ dbCall["startServer"] = "idle"
                /\ DatabaseConnected \notin log
                /\ HasListened
          /\ (options.connectDb /\ phase \in {"listening", "stopping"}) =>
                /\ dbCall["startServer"] = "idle"
                /\ DatabaseConnected \in log
    /\ ServerRunning \in log => HasListened

(* The second test case: appFactory given, connectDb false, the server      *)
(* listens and has logged, and nobody has connected to the database         *)
C21_Witness ==
    /\ StartedAsServer
    /\ options.appFactory
    /\ ~options.connectDb
    /\ app = "appFactory"
    /\ phase = "listening"
    /\ ServerRunning \in log
    /\ connects = 0
    /\ ~isConnected

(* C22: as long as the connection has not been lost, mongoose.connect is    *)
(* invoked at most once, however the calls of connectToDatabase interleave. *)
C22_SingleConnect == connects <= 1

(* C23: at most one 'error', one 'disconnected' and one 'reconnected'       *)
(* listener is registered on mongoose.connection at any time.               *)
C23_OneListenerEach == \A e \in ConnectionEvents : listeners[e] <= 1

(* startServer took the branch of the primary of a cluster *)
StartedAsPrimary ==
    /\ DOMAIN options # {}
    /\ options.enableClustering
    /\ options.isPrimary

InitialWorkers == IF numCPUs <= 4 THEN numCPUs ELSE 4

(* The primary has not built an app, called connectToDatabase or listened *)
PrimaryStaysIdle ==
    /\ app = "none"
    /\ dbCall["startServer"] = "idle"
    /\ log = {}
    /\ phase \in {"primary", "exit0", "exit1"}

(* C24: the primary of a cluster forks min(number of CPUs, 4) workers and   *)
(* neither listens nor connects to the database; every 'exit' event is      *)
(* answered with one fork, so that the live workers and the exits not yet   *)
(* handled always add up to the initial number, never more workers live     *)
(* than that, and while the primary runs the number of live workers comes   *)
(* back to it after an exit.                                                *)
C24_WorkersRestored ==
    /\ [](StartedAsPrimary =>
             /\ PrimaryStaysIdle
             /\ workers + exitEvents = InitialWorkers
             /\ workers <= InitialWorkers)
    /\ [][/\ forks' # forks =>
               \/ ~StartedAsPrimary /\ forks' = InitialWorkers' /\ workers' = InitialWorkers'
               \/ /\ forks' = forks + 1
                  /\ exitEvents' = exitEvents - 1
                  /\ workers' = workers + 1
          /\ exitEvents' < exitEvents => forks' = forks + 1]_vars
    /\ (StartedAsPrimary /\ workers < InitialWorkers)
          ~> (workers = InitialWorkers \/ ~Alive)

(* On eight CPUs: four workers were forked, two have exited and both were   *)
(* replaced                                                                 *)
C24_Witness ==
    /\ StartedAsPrimary
    /\ numCPUs = 8
    /\ workers = 4
    /\ forks = 6
    /\ exitEvents = 0
    /\ Alive

(* C25: once shutdownGracefully has been started by SIGTERM, SIGINT or an   *)
(* uncaught exception, the process exits, whether mongoose.disconnect       *)
(* resolves, rejects or is not called for want of a connection, and also    *)
(* when the handler is started again before the exit.                       *)
C25_ShutdownTerminates == (signals > 0) ~> ~Alive

(* Two signals while connected, both disconnects rejected, then the exit *)
C25_Witness ==
    /\ signals = 2
    /\ phase = "exit0"
    /\ isConnected
    /\ disconnecting = 0
    /\ timers = 2

-----------------------------------------------------------------------------
(* Claims about failures and the cache *)

(* The step sent a response *)
Answered == last' # last

(* C26: a login that fails (no record, wrong password, comparison error)    *)
(* and a registration rejected because the email exists change neither the  *)
(* user cache nor the collection; an entry of the user cache is written     *)
(* only for the email of a successful registration or login, or by a        *)
(* findUserByEmail call that misses the cache and finds the record.         *)
C26_FailuresLeaveNoTrace ==
    [][/\ (Answered /\ LoginCalled'
            /\ (~last'.res.success \/ NeverRegistered' \/ WrongPassword'))
          => (userCache' = userCache /\ users' = users)
       /\ (Answered /\ RegisterCalled' /\ last'.status = 409)
          => (userCache' = userCache /\ users' = users)
       /\ \A k \in Written(userCache, userCache') :
             \/ /\ returned' = NoCall
                /\ last'.op \in {"register", "login"}
                /\ last'.res.success
                /\ k = "user:" \o LastEmail'
             \/ /\ returned'.op = "findUserByEmail"
                /\ returned'.key = k
                /\ ~returned'.hit
                /\ \E i \in 1..Len(users) : k = "user:" \o users[i].email]_vars

(* a@x.io is registered and cached, and a login with another password has   *)
(* just been refused                                                        *)
C26_Witness ==
    /\ LoginCalled
    /\ WrongPassword
    /\ last.status = 401
    /\ Len(users) = 1
    /\ ("user:" \o LastEmail) \in DOMAIN userCache
    /\ "password" \notin DOMAIN userCache["user:" \o LastEmail].v

(* C27: what authenticateUser and registerUser answer to a request is the   *)
(* same with the user cache as it is and with the cache cleared: for every  *)
(* login and every record findOne can return, and for every registration    *)
(* suspended at user.save().                                                *)
C27_CacheNeverDecides ==
    /\ \A body \in CacheLoginBodies : \A i \in FindOneUser(toLowerCase(body.email)) :
          authenticateUserResult(userCache, otherKeys.user, i, body.password)
             = authenticateUserResult(EmptyCache, 0, i, body.password)
    /\ \A c \in Calls :
          pending[c] # {} =>
             cacheSetError(userCache, otherKeys.user) = cacheSetError(EmptyCache, 0)

(* C29: a registerUser or createItem call that is answered with an error    *)
(* has added no record to its collection.                                   *)
C29_ErrorPersistsNothing ==
    [][(Answered /\ last'.op \in {"register", "createItem"} /\ ~last'.res.success)
          => (users' = users /\ items' = items)]_vars

AllItemsCached == AllItemsKey \in DOMAIN itemCache /\ Unexpired(itemCache, AllItemsKey)

AllItemsList == itemCache[AllItemsKey].v

(* C28: while 'all_items' is cached and unexpired, the list it holds has    *)
(* every item of the collection, that is every item whose createItem has    *)
(* completed successfully.                                                  *)
C28_AggregateCoherent ==
    AllItemsCached =>
        \A i \in 1..Len(items) : \E j \in 1..Len(AllItemsList) : AllItemsList[j] = items[i]

(* C28, amended: while 'all_items' is cached and unexpired, the list it     *)
(* holds is the collection as an earlier getAllItems call read it, that is  *)
(* the items in insertion order up to some point, and the entry expires at  *)
(* most 300 s from now; the items created since are left out until then or  *)
(* until invalidateCache is called.                                         *)
C28_AggregateIsSnapshot ==
    AllItemsCached =>
        /\ Len(AllItemsList) <= Len(items)
        /\ \A j \in 1..Len(AllItemsList) : AllItemsList[j] = items[j]
        /\ itemCache[AllItemsKey].t # 0
        /\ itemCache[AllItemsKey].t <= now + 300

(* The cached list is empty although an item has been created since *)
C28_Witness ==
    /\ AllItemsCached
    /\ AllItemsList = << >>
    /\ Len(items) = 1
    /\ last.op = "createItem"
    /\ last.status = 201

====
